---- MODULE Spec2Model ----
(***************************************************************************)
(* Model of api/python/evecommon/devmodelcommon_pb2.py: the generated      *)
(* binding of evecommon/devmodelcommon.proto.  The module body is executed *)
(* statement by statement when the module is imported (pc follows the      *)
(* module-scope statements); once it is loaded, clients look names and     *)
(* numbers up through the two EnumTypeWrapper objects.                     *)
(***************************************************************************)
EXTENDS Integers, Sequences, FiniteSets, TLC

VARIABLES pc, DESCRIPTOR, enums, sym_db, wrappers, module_globals, assigned, lookups

vars == <<pc, DESCRIPTOR, enums, sym_db, wrappers, module_globals, assigned, lookups>>

\* Longest recorded history of client lookups after the module is loaded.
MaxLookups == 2

\* ---------------------------------------------------------------------
\* Literals of the module body
\* ---------------------------------------------------------------------

\* DESCRIPTOR = _descriptor.FileDescriptor(name=..., package=..., syntax=...)
FileDescriptor ==
  [name |-> "evecommon/devmodelcommon.proto",
   package |-> "org.lfedge.eve.common",
   syntax |-> "proto3",
   _options |-> "None",
   enum_types_by_name |-> [n \in {} |-> ""]]

\* Mutation: PhyIoOther numbered by its index (8) instead of 255.
_PHYIOTYPE_values_other8 ==
  << [name |-> "PhyIoNoop",    index |-> 0, number |-> 0],
     [name |-> "PhyIoNetEth",  index |-> 1, number |-> 1],
     [name |-> "PhyIoUSB",     index |-> 2, number |-> 2],
     [name |-> "PhyIoCOM",     index |-> 3, number |-> 3],
     [name |-> "PhyIoAudio",   index |-> 4, number |-> 4],
     [name |-> "PhyIoNetWLAN", index |-> 5, number |-> 5],
     [name |-> "PhyIoNetWWAN", index |-> 6, number |-> 6],
     [name |-> "PhyIoHDMI",    index |-> 7, number |-> 7],
     [name |-> "PhyIoOther",   index |-> 8, number |-> 8] >>

\* Mutation: PhyIoOther declared as an alias of number 7.
_PHYIOTYPE_values_alias ==
  << [name |-> "PhyIoNoop",    index |-> 0, number |-> 0],
     [name |-> "PhyIoNetEth",  index |-> 1, number |-> 1],
     [name |-> "PhyIoUSB",     index |-> 2, number |-> 2],
     [name |-> "PhyIoCOM",     index |-> 3, number |-> 3],
     [name |-> "PhyIoAudio",   index |-> 4, number |-> 4],
     [name |-> "PhyIoNetWLAN", index |-> 5, number |-> 5],
     [name |-> "PhyIoNetWWAN", index |-> 6, number |-> 6],
     [name |-> "PhyIoHDMI",    index |-> 7, number |-> 7],
     [name |-> "PhyIoOther",   index |-> 8, number |-> 7] >>

\* Mutation: the zero value PhyIoNoop is not declared; the list starts at 1.
_PHYIOTYPE_values_nozero ==
  << [name |-> "PhyIoNetEth",  index |-> 0, number |-> 1],
     [name |-> "PhyIoUSB",     index |-> 1, number |-> 2],
     [name |-> "PhyIoCOM",     index |-> 2, number |-> 3],
     [name |-> "PhyIoAudio",   index |-> 3, number |-> 4],
     [name |-> "PhyIoNetWLAN", index |-> 4, number |-> 5],
     [name |-> "PhyIoNetWWAN", index |-> 5, number |-> 6],
     [name |-> "PhyIoHDMI",    index |-> 6, number |-> 7],
     [name |-> "PhyIoOther",   index |-> 7, number |-> 255] >>

\* values=[...] of _PHYIOTYPE
_PHYIOTYPE_values ==
  << [name |-> "PhyIoNoop",    index |-> 0, number |-> 0],
     [name |-> "PhyIoNetEth",  index |-> 1, number |-> 1],
     [name |-> "PhyIoUSB",     index |-> 2, number |-> 2],
     [name |-> "PhyIoCOM",     index |-> 3, number |-> 3],
     [name |-> "PhyIoAudio",   index |-> 4, number |-> 4],
     [name |-> "PhyIoNetWLAN", index |-> 5, number |-> 5],
     [name |-> "PhyIoNetWWAN", index |-> 6, number |-> 6],
     [name |-> "PhyIoHDMI",    index |-> 7, number |-> 7],
     [name |-> "PhyIoOther",   index |-> 8, number |-> 255] >>

\* _PHYIOTYPE = _descriptor.EnumDescriptor(name=..., full_name=..., values=...)
_PHYIOTYPE ==
  [name |-> "PhyIoType",
   full_name |-> "org.lfedge.eve.common.PhyIoType",
   file |-> "evecommon/devmodelcommon.proto",
   values |-> _PHYIOTYPE_values]

\* Mutation: the last value, PhyIoUsageMgmtOnly, is not declared.
_PHYIOMEMBERUSAGE_values_short ==
  << [name |-> "PhyIoUsageNone",        index |-> 0, number |-> 0],
     [name |-> "PhyIoUsageMgmtAndApps", index |-> 1, number |-> 1],
     [name |-> "PhyIoUsageShared",      index |-> 2, number |-> 2],
     [name |-> "PhyIoUsageDedicated",   index |-> 3, number |-> 3],
     [name |-> "PhyIoUsageDisabled",    index |-> 4, number |-> 4] >>

\* Mutation: PhyIoUsageMgmtOnly declared as an alias of number 1.
_PHYIOMEMBERUSAGE_values_alias ==
  << [name |-> "PhyIoUsageNone",        index |-> 0, number |-> 0],
     [name |-> "PhyIoUsageMgmtAndApps", index |-> 1, number |-> 1],
     [name |-> "PhyIoUsageShared",      index |-> 2, number |-> 2],
     [name |-> "PhyIoUsageDedicated",   index |-> 3, number |-> 3],
     [name |-> "PhyIoUsageDisabled",    index |-> 4, number |-> 4],
     [name |-> "PhyIoUsageMgmtOnly",    index |-> 5, number |-> 1] >>

\* Mutation: the zero value of PhyIoMemberUsage reuses the name PhyIoNoop.
_PHYIOMEMBERUSAGE_values_clash ==
  << [name |-> "PhyIoNoop",             index |-> 0, number |-> 0],
     [name |-> "PhyIoUsageMgmtAndApps", index |-> 1, number |-> 1],
     [name |-> "PhyIoUsageShared",      index |-> 2, number |-> 2],
     [name |-> "PhyIoUsageDedicated",   index |-> 3, number |-> 3],
     [name |-> "PhyIoUsageDisabled",    index |-> 4, number |-> 4],
     [name |-> "PhyIoUsageMgmtOnly",    index |-> 5, number |-> 5] >>

\* values=[...] of _PHYIOMEMBERUSAGE
_PHYIOMEMBERUSAGE_values ==
  << [name |-> "PhyIoUsageNone",        index |-> 0, number |-> 0],
     [name |-> "PhyIoUsageMgmtAndApps", index |-> 1, number |-> 1],
     [name |-> "PhyIoUsageShared",      index |-> 2, number |-> 2],
     [name |-> "PhyIoUsageDedicated",   index |-> 3, number |-> 3],
     [name |-> "PhyIoUsageDisabled",    index |-> 4, number |-> 4],
     [name |-> "PhyIoUsageMgmtOnly",    index |-> 5, number |-> 5] >>

\* _PHYIOMEMBERUSAGE = _descriptor.EnumDescriptor(...)
_PHYIOMEMBERUSAGE ==
  [name |-> "PhyIoMemberUsage",
   full_name |-> "org.lfedge.eve.common.PhyIoMemberUsage",
   file |-> "evecommon/devmodelcommon.proto",
   values |-> _PHYIOMEMBERUSAGE_values]

\* Mutation: the constant PhyIoOther is 8, not the descriptor's 255.
ModuleConstants_other8 ==
  << [name |-> "PhyIoNoop",             value |-> 0],
     [name |-> "PhyIoNetEth",           value |-> 1],
     [name |-> "PhyIoUSB",              value |-> 2],
     [name |-> "PhyIoCOM",              value |-> 3],
     [name |-> "PhyIoAudio",            value |-> 4],
     [name |-> "PhyIoNetWLAN",          value |-> 5],
     [name |-> "PhyIoNetWWAN",          value |-> 6],
     [name |-> "PhyIoHDMI",             value |-> 7],
     [name |-> "PhyIoOther",            value |-> 8],
     [name |-> "PhyIoUsageNone",        value |-> 0],
     [name |-> "PhyIoUsageMgmtAndApps", value |-> 1],
     [name |-> "PhyIoUsageShared",      value |-> 2],
     [name |-> "PhyIoUsageDedicated",   value |-> 3],
     [name |-> "PhyIoUsageDisabled",    value |-> 4],
     [name |-> "PhyIoUsageMgmtOnly",    value |-> 5] >>

\* The fifteen module-scope assignments PhyIoNoop = 0 ... PhyIoUsageMgmtOnly = 5,
\* in statement order.
ModuleConstants ==
  << [name |-> "PhyIoNoop",             value |-> 0],
     [name |-> "PhyIoNetEth",           value |-> 1],
     [name |-> "PhyIoUSB",              value |-> 2],
     [name |-> "PhyIoCOM",              value |-> 3],
     [name |-> "PhyIoAudio",            value |-> 4],
     [name |-> "PhyIoNetWLAN",          value |-> 5],
     [name |-> "PhyIoNetWWAN",          value |-> 6],
     [name |-> "PhyIoHDMI",             value |-> 7],
     [name |-> "PhyIoOther",            value |-> 255],
     [name |-> "PhyIoUsageNone",        value |-> 0],
     [name |-> "PhyIoUsageMgmtAndApps", value |-> 1],
     [name |-> "PhyIoUsageShared",      value |-> 2],
     [name |-> "PhyIoUsageDedicated",   value |-> 3],
     [name |-> "PhyIoUsageDisabled",    value |-> 4],
     [name |-> "PhyIoUsageMgmtOnly",    value |-> 5] >>

\* ---------------------------------------------------------------------
\* Helpers
\* ---------------------------------------------------------------------

\* Python's d[k] = v on a dict: a new key is added, an existing key is overwritten.
SetItem(d, k, v) == (k :> v) @@ d

\* The name/number pairs an enum descriptor declares.
Pairs(vals) == { <<vals[i].name, vals[i].number>> : i \in DOMAIN vals }

Names(vals) == { vals[i].name : i \in DOMAIN vals }

Numbers(vals) == { vals[i].number : i \in DOMAIN vals }

\* EnumDescriptor.values_by_name: a dict built from the values in order, so the
\* last value declared under a name is the one kept.
values_by_name(vals) ==
  [n \in Names(vals) |->
     vals[CHOOSE i \in DOMAIN vals :
            /\ vals[i].name = n
            /\ \A j \in DOMAIN vals : vals[j].name = n => j <= i]]

\* EnumDescriptor.values_by_number: the first value declared under a number is
\* the one kept.
values_by_number(vals) ==
  [k \in Numbers(vals) |->
     vals[CHOOSE i \in DOMAIN vals :
            /\ vals[i].number = k
            /\ \A j \in DOMAIN vals : vals[j].number = k => i <= j]]

\* The number an enum field holds when the serialized input does not carry it:
\* under syntax proto3 the number of the first declared value (index 0).
default_value(vals) == vals[1].number

\* Arguments clients pass to the lookups: every declared name and number of
\* both enumerations, and some that neither declares.
ProbeNames == Names(_PHYIOTYPE_values) \cup Names(_PHYIOMEMBERUSAGE_values)
                \cup {"PhyIoBogus"}

ProbeNumbers == Numbers(_PHYIOTYPE_values) \cup Numbers(_PHYIOMEMBERUSAGE_values)
                  \cup {8, 9999}

\* ---------------------------------------------------------------------
\* Module load: one action per module-scope statement
\* ---------------------------------------------------------------------

Init ==
  /\ pc = "FileDescriptor"
  /\ DESCRIPTOR = [name |-> "", package |-> "", syntax |-> "",
                   _options |-> "None",
                   enum_types_by_name |-> [n \in {} |-> ""]]
  /\ enums = [n \in {} |-> _PHYIOTYPE]
  /\ sym_db = {}
  /\ wrappers = {}
  /\ module_globals = [n \in {} |-> 0]
  /\ assigned = 0
  /\ lookups = <<>>

\* DESCRIPTOR = _descriptor.FileDescriptor(...)
MakeFileDescriptor ==
  /\ pc = "FileDescriptor"
  /\ DESCRIPTOR' = FileDescriptor
  /\ pc' = "PHYIOTYPE"
  /\ UNCHANGED <<enums, sym_db, wrappers, module_globals, assigned, lookups>>

\* _PHYIOTYPE = _descriptor.EnumDescriptor(...)
MakePhyIoTypeDescriptor ==
  /\ pc = "PHYIOTYPE"
  /\ enums' = SetItem(enums, "_PHYIOTYPE", _PHYIOTYPE)
  /\ pc' = "RegisterPHYIOTYPE"
  /\ UNCHANGED <<DESCRIPTOR, sym_db, wrappers, module_globals, assigned, lookups>>

\* _sym_db.RegisterEnumDescriptor(_PHYIOTYPE)
RegisterPhyIoType ==
  /\ pc = "RegisterPHYIOTYPE"
  /\ sym_db' = sym_db \cup {enums["_PHYIOTYPE"].full_name}
  /\ pc' = "WrapPhyIoType"
  /\ UNCHANGED <<DESCRIPTOR, enums, wrappers, module_globals, assigned, lookups>>

\* PhyIoType = enum_type_wrapper.EnumTypeWrapper(_PHYIOTYPE)
WrapPhyIoType ==
  /\ pc = "WrapPhyIoType"
  /\ wrappers' = wrappers \cup {"_PHYIOTYPE"}
  /\ pc' = "PHYIOMEMBERUSAGE"
  /\ UNCHANGED <<DESCRIPTOR, enums, sym_db, module_globals, assigned, lookups>>

\* _PHYIOMEMBERUSAGE = _descriptor.EnumDescriptor(...)
MakePhyIoMemberUsageDescriptor ==
  /\ pc = "PHYIOMEMBERUSAGE"
  /\ enums' = SetItem(enums, "_PHYIOMEMBERUSAGE", _PHYIOMEMBERUSAGE)
  /\ pc' = "RegisterPHYIOMEMBERUSAGE"
  /\ UNCHANGED <<DESCRIPTOR, sym_db, wrappers, module_globals, assigned, lookups>>

\* _sym_db.RegisterEnumDescriptor(_PHYIOMEMBERUSAGE)
RegisterPhyIoMemberUsage ==
  /\ pc = "RegisterPHYIOMEMBERUSAGE"
  /\ sym_db' = sym_db \cup {enums["_PHYIOMEMBERUSAGE"].full_name}
  /\ pc' = "WrapPhyIoMemberUsage"
  /\ UNCHANGED <<DESCRIPTOR, enums, wrappers, module_globals, assigned, lookups>>

\* PhyIoMemberUsage = enum_type_wrapper.EnumTypeWrapper(_PHYIOMEMBERUSAGE)
WrapPhyIoMemberUsage ==
  /\ pc = "WrapPhyIoMemberUsage"
  /\ wrappers' = wrappers \cup {"_PHYIOMEMBERUSAGE"}
  /\ pc' = "Constants"
  /\ UNCHANGED <<DESCRIPTOR, enums, sym_db, module_globals, assigned, lookups>>

\* The next of the assignments PhyIoNoop = 0 ... PhyIoUsageMgmtOnly = 5;
\* assigned counts the assignment statements already executed.
AssignConstant ==
  /\ pc = "Constants"
  /\ assigned < Len(ModuleConstants)
  /\ module_globals' =
       SetItem(module_globals, ModuleConstants[assigned + 1].name,
               ModuleConstants[assigned + 1].value)
  /\ assigned' = assigned + 1
  /\ pc' = IF assigned + 1 = Len(ModuleConstants) THEN "ByNamePhyIoType" ELSE "Constants"
  /\ UNCHANGED <<DESCRIPTOR, enums, sym_db, wrappers, lookups>>

\* DESCRIPTOR.enum_types_by_name['PhyIoType'] = _PHYIOTYPE
SetByNamePhyIoType ==
  /\ pc = "ByNamePhyIoType"
  /\ DESCRIPTOR' =
       [DESCRIPTOR EXCEPT !.enum_types_by_name =
          SetItem(@, "PhyIoType", enums["_PHYIOTYPE"])]
  /\ pc' = "ByNamePhyIoMemberUsage"
  /\ UNCHANGED <<enums, sym_db, wrappers, module_globals, assigned, lookups>>

\* Mutation: the second registration reuses the key 'PhyIoType'.
SetByNamePhyIoMemberUsage_wrongkey ==
  /\ pc = "ByNamePhyIoMemberUsage"
  /\ DESCRIPTOR' =
       [DESCRIPTOR EXCEPT !.enum_types_by_name =
          SetItem(@, "PhyIoType", enums["_PHYIOMEMBERUSAGE"])]
  /\ pc' = "RegisterFileDescriptor"
  /\ UNCHANGED <<enums, sym_db, wrappers, module_globals, assigned, lookups>>

\* DESCRIPTOR.enum_types_by_name['PhyIoMemberUsage'] = _PHYIOMEMBERUSAGE
SetByNamePhyIoMemberUsage ==
  /\ pc = "ByNamePhyIoMemberUsage"
  /\ DESCRIPTOR' =
       [DESCRIPTOR EXCEPT !.enum_types_by_name =
          SetItem(@, "PhyIoMemberUsage", enums["_PHYIOMEMBERUSAGE"])]
  /\ pc' = "RegisterFileDescriptor"
  /\ UNCHANGED <<enums, sym_db, wrappers, module_globals, assigned, lookups>>

\* _sym_db.RegisterFileDescriptor(DESCRIPTOR)
RegisterFileDescriptor ==
  /\ pc = "RegisterFileDescriptor"
  /\ sym_db' = sym_db \cup {DESCRIPTOR.name}
  /\ pc' = "ResetOptions"
  /\ UNCHANGED <<DESCRIPTOR, enums, wrappers, module_globals, assigned, lookups>>

\* DESCRIPTOR._options = None
ResetOptions ==
  /\ pc = "ResetOptions"
  /\ DESCRIPTOR' = [DESCRIPTOR EXCEPT !._options = "None"]
  /\ pc' = "loaded"
  /\ UNCHANGED <<enums, sym_db, wrappers, module_globals, assigned, lookups>>

\* ---------------------------------------------------------------------
\* Lookups through the wrappers PhyIoType and PhyIoMemberUsage
\* ---------------------------------------------------------------------

\* wrapper.Name(number): the name of the value declared under the number, or
\* ValueError when the enumeration declares none.
NameResult(vals, number) ==
  IF number \in DOMAIN values_by_number(vals)
  THEN [raised |-> "", name |-> values_by_number(vals)[number].name, number |-> number]
  ELSE [raised |-> "ValueError", name |-> "", number |-> number]

\* wrapper.Value(name): the number of the value declared under the name, or
\* ValueError when the enumeration declares none.
ValueResult(vals, name) ==
  IF name \in DOMAIN values_by_name(vals)
  THEN [raised |-> "", name |-> name, number |-> values_by_name(vals)[name].number]
  ELSE [raised |-> "ValueError", name |-> name, number |-> 0]

\* Mutation: the lookup removes the value it finds from the descriptor.
Name_pop(e, number) ==
  /\ pc = "loaded"
  /\ e \in wrappers
  /\ Len(lookups) < MaxLookups
  /\ lookups' = Append(lookups,
        [enum |-> e, op |-> "Name", result |-> NameResult(enums[e].values, number)])
  /\ enums' = [enums EXCEPT ![e].values =
                 SelectSeq(@, LAMBDA v : v.number # number)]
  /\ UNCHANGED <<pc, DESCRIPTOR, sym_db, wrappers, module_globals, assigned>>

\* A client calls Name(number) on the wrapper of descriptor e.
Name(e, number) ==
  /\ pc = "loaded"
  /\ e \in wrappers
  /\ Len(lookups) < MaxLookups
  /\ lookups' = Append(lookups,
        [enum |-> e, op |-> "Name", result |-> NameResult(enums[e].values, number)])
  /\ UNCHANGED <<pc, DESCRIPTOR, enums, sym_db, wrappers, module_globals, assigned>>

\* A client calls Value(name) on the wrapper of descriptor e.
Value(e, name) ==
  /\ pc = "loaded"
  /\ e \in wrappers
  /\ Len(lookups) < MaxLookups
  /\ lookups' = Append(lookups,
        [enum |-> e, op |-> "Value", result |-> ValueResult(enums[e].values, name)])
  /\ UNCHANGED <<pc, DESCRIPTOR, enums, sym_db, wrappers, module_globals, assigned>>

Next ==
  \/ MakeFileDescriptor
  \/ MakePhyIoTypeDescriptor
  \/ RegisterPhyIoType
  \/ WrapPhyIoType
  \/ MakePhyIoMemberUsageDescriptor
  \/ RegisterPhyIoMemberUsage
  \/ WrapPhyIoMemberUsage
  \/ AssignConstant
  \/ SetByNamePhyIoType
  \/ SetByNamePhyIoMemberUsage
  \/ RegisterFileDescriptor
  \/ ResetOptions
  \/ \E e \in {"_PHYIOTYPE", "_PHYIOMEMBERUSAGE"}, number \in ProbeNumbers : Name(e, number)
  \/ \E e \in {"_PHYIOTYPE", "_PHYIOMEMBERUSAGE"}, name \in ProbeNames : Value(e, name)

Spec == Init /\ [][Next]_vars

\* ---------------------------------------------------------------------
\* Properties
\* ---------------------------------------------------------------------

Constructed(e) == e \in DOMAIN enums

HasLookup(e, op, name, number) ==
  \E i \in DOMAIN lookups :
    /\ lookups[i].enum = e
    /\ lookups[i].op = op
    /\ lookups[i].result.raised = ""
    /\ lookups[i].result.name = name
    /\ lookups[i].result.number = number

\* C1: once constructed, the PhyIoType descriptor declares exactly the nine
\* pairs PhyIoNoop=0, PhyIoNetEth=1, PhyIoUSB=2, PhyIoCOM=3, PhyIoAudio=4,
\* PhyIoNetWLAN=5, PhyIoNetWWAN=6, PhyIoHDMI=7, PhyIoOther=255: no pair is
\* missing and no other name or number is declared.
C1_PhyIoTypeExact ==
  Constructed("_PHYIOTYPE") =>
    /\ Pairs(enums["_PHYIOTYPE"].values) =
         { <<"PhyIoNoop", 0>>, <<"PhyIoNetEth", 1>>, <<"PhyIoUSB", 2>>,
           <<"PhyIoCOM", 3>>, <<"PhyIoAudio", 4>>, <<"PhyIoNetWLAN", 5>>,
           <<"PhyIoNetWWAN", 6>>, <<"PhyIoHDMI", 7>>, <<"PhyIoOther", 255>> }
    /\ Len(enums["_PHYIOTYPE"].values) = 9

C1_Witness ==
  /\ pc = "loaded"
  /\ Constructed("_PHYIOTYPE")
  /\ HasLookup("_PHYIOTYPE", "Value", "PhyIoOther", 255)

\* C2: once constructed, the PhyIoMemberUsage descriptor declares exactly the
\* six pairs PhyIoUsageNone=0, PhyIoUsageMgmtAndApps=1, PhyIoUsageShared=2,
\* PhyIoUsageDedicated=3, PhyIoUsageDisabled=4, PhyIoUsageMgmtOnly=5.
C2_PhyIoMemberUsageExact ==
  Constructed("_PHYIOMEMBERUSAGE") =>
    /\ Pairs(enums["_PHYIOMEMBERUSAGE"].values) =
         { <<"PhyIoUsageNone", 0>>, <<"PhyIoUsageMgmtAndApps", 1>>,
           <<"PhyIoUsageShared", 2>>, <<"PhyIoUsageDedicated", 3>>,
           <<"PhyIoUsageDisabled", 4>>, <<"PhyIoUsageMgmtOnly", 5>> }
    /\ Len(enums["_PHYIOMEMBERUSAGE"].values) = 6

C2_Witness ==
  /\ pc = "loaded"
  /\ Constructed("_PHYIOMEMBERUSAGE")
  /\ HasLookup("_PHYIOMEMBERUSAGE", "Value", "PhyIoUsageMgmtOnly", 5)

\* C3: within each constructed enumeration no two declared values share a
\* number and no two share a name, the by-name and by-number dictionaries are
\* inverse bijections between the declared names and the declared numbers, and
\* every declared number is a 32-bit signed integer.
C3_Bijection ==
  \A e \in DOMAIN enums :
    LET vals == enums[e].values IN
      /\ \A i, j \in DOMAIN vals :
           (vals[i].number = vals[j].number \/ vals[i].name = vals[j].name) => i = j
      /\ \A n \in Names(vals) :
           values_by_number(vals)[values_by_name(vals)[n].number].name = n
      /\ \A k \in Numbers(vals) :
           values_by_name(vals)[values_by_number(vals)[k].name].number = k
      /\ \A k \in Numbers(vals) : k >= -2147483647 - 1 /\ k <= 2147483647

C3_Witness ==
  /\ DOMAIN enums = {"_PHYIOTYPE", "_PHYIOMEMBERUSAGE"}
  /\ HasLookup("_PHYIOTYPE", "Name", "PhyIoNetWLAN", 5)
  /\ HasLookup("_PHYIOMEMBERUSAGE", "Name", "PhyIoUsageMgmtOnly", 5)

\* C4: round trip.  When Value(name) returns a number and the next lookup on
\* the same wrapper is Name of that number, it returns the original name; when
\* Name(number) returns a name and the next lookup on the same wrapper is Value
\* of that name, it returns the original number.
C4_RoundTrip ==
  \A i \in DOMAIN lookups :
    i + 1 \in DOMAIN lookups =>
      LET a == lookups[i]
          b == lookups[i + 1]
      IN  /\ ( /\ a.enum = b.enum
               /\ a.op = "Value" /\ a.result.raised = ""
               /\ b.op = "Name" /\ b.result.number = a.result.number )
             => (b.result.raised = "" /\ b.result.name = a.result.name)
          /\ ( /\ a.enum = b.enum
               /\ a.op = "Name" /\ a.result.raised = ""
               /\ b.op = "Value" /\ b.result.name = a.result.name )
             => (b.result.raised = "" /\ b.result.number = a.result.number)

C4_Witness ==
  /\ Len(lookups) = 2
  /\ lookups[1].enum = "_PHYIOTYPE" /\ lookups[2].enum = "_PHYIOTYPE"
  /\ lookups[1].op = "Value" /\ lookups[1].result.name = "PhyIoOther"
  /\ lookups[1].result.raised = ""
  /\ lookups[2].op = "Name" /\ lookups[2].result.number = lookups[1].result.number
  /\ lookups[2].result.name = "PhyIoOther"

\* C5: for each constructed enumeration the number of an absent field is 0, and
\* 0 is declared: it names PhyIoNoop in PhyIoType and PhyIoUsageNone in
\* PhyIoMemberUsage.
C5_DefaultZero ==
  /\ Constructed("_PHYIOTYPE") =>
       /\ default_value(enums["_PHYIOTYPE"].values) = 0
       /\ NameResult(enums["_PHYIOTYPE"].values,
                     default_value(enums["_PHYIOTYPE"].values)).name = "PhyIoNoop"
  /\ Constructed("_PHYIOMEMBERUSAGE") =>
       /\ default_value(enums["_PHYIOMEMBERUSAGE"].values) = 0
       /\ NameResult(enums["_PHYIOMEMBERUSAGE"].values,
                     default_value(enums["_PHYIOMEMBERUSAGE"].values)).name
            = "PhyIoUsageNone"

C5_Witness ==
  /\ HasLookup("_PHYIOTYPE", "Name", "PhyIoNoop", 0)
  /\ HasLookup("_PHYIOMEMBERUSAGE", "Name", "PhyIoUsageNone", 0)

\* C7: both enumerations are declared in package org.lfedge.eve.common, and
\* once the module is loaded enum_types_by_name holds exactly the two keys
\* PhyIoType and PhyIoMemberUsage, each mapped to the descriptor of that name.
C7_PackageAndByName ==
  pc = "loaded" =>
    /\ DESCRIPTOR.package = "org.lfedge.eve.common"
    /\ \A e \in DOMAIN enums :
         enums[e].full_name = DESCRIPTOR.package \o "." \o enums[e].name
    /\ DOMAIN DESCRIPTOR.enum_types_by_name = {"PhyIoType", "PhyIoMemberUsage"}
    /\ DESCRIPTOR.enum_types_by_name["PhyIoType"] = enums["_PHYIOTYPE"]
    /\ DESCRIPTOR.enum_types_by_name["PhyIoMemberUsage"] = enums["_PHYIOMEMBERUSAGE"]
    /\ \A n \in DOMAIN DESCRIPTOR.enum_types_by_name :
         DESCRIPTOR.enum_types_by_name[n].name = n

C7_Witness ==
  /\ pc = "loaded"
  /\ Cardinality(DOMAIN DESCRIPTOR.enum_types_by_name) = 2
  /\ DESCRIPTOR.name \in sym_db

\* C8: once the module is loaded, no step (in particular no Name or Value
\* lookup) changes the descriptors, their values, the module constants or the
\* file descriptor.
C8_LookupsReadOnly ==
  [][pc = "loaded" =>
       /\ enums' = enums
       /\ module_globals' = module_globals
       /\ DESCRIPTOR' = DESCRIPTOR
       /\ wrappers' = wrappers]_vars

C8_Witness ==
  /\ pc = "loaded"
  /\ Len(lookups) = 2
  /\ lookups[1].op = "Name" /\ lookups[1].result.raised = ""
  /\ lookups[2].op = "Value" /\ lookups[2].result.raised = ""
  /\ Pairs(enums["_PHYIOTYPE"].values) = Pairs(_PHYIOTYPE.values)

\* C9: when the fifteen assignments have run, the module constants are exactly
\* the name/number pairs the two descriptors declare; while they run, every
\* constant already assigned is such a pair.
C9_ConstantsAgree ==
  LET globals == { <<n, module_globals[n]>> : n \in DOMAIN module_globals }
      declared == UNION { Pairs(enums[e].values) : e \in DOMAIN enums }
  IN  /\ globals \subseteq declared
      /\ assigned = Len(ModuleConstants) =>
           /\ globals = declared
           /\ Cardinality(globals) = 15

C9_Witness ==
  /\ assigned = 15
  /\ "PhyIoOther" \in DOMAIN module_globals
  /\ module_globals["PhyIoOther"] = 255
  /\ pc = "ByNamePhyIoType"

\* C10: the two descriptors declare disjoint name sets, and every assignment
\* statement executed so far has added a new constant to the module namespace:
\* none has overwritten another, although the numbers 0 to 5 are shared.
C10_NoOverwrite ==
  /\ (Constructed("_PHYIOTYPE") /\ Constructed("_PHYIOMEMBERUSAGE")) =>
       /\ Names(enums["_PHYIOTYPE"].values)
            \cap Names(enums["_PHYIOMEMBERUSAGE"].values) = {}
       /\ 0 .. 5 \subseteq Numbers(enums["_PHYIOTYPE"].values)
                             \cap Numbers(enums["_PHYIOMEMBERUSAGE"].values)
  /\ Cardinality(DOMAIN module_globals) = assigned

C10_Witness ==
  /\ assigned = 15
  /\ module_globals["PhyIoNoop"] = 0
  /\ module_globals["PhyIoUsageNone"] = 0
  /\ pc = "loaded"

====
